---- MODULE Spec2Model ----
(***************************************************************************)
(* Model of src/scraper.py: the BooksScraper crawl (scrape_all_pages and   *)
(* scrape_page), the field extractors (clean_price,                        *)
(* convert_rating_to_number), validate_data, save_to_csv and main.         *)
(*                                                                         *)
(* Text that the code inspects character by character (price text, CSS     *)
(* class tokens, availability text) is a sequence of one-character         *)
(* strings.  Text that the code only copies (title, href) is a string.     *)
(* A price is an integer number of hundredths (float("51.77") is 5177).    *)
(***************************************************************************)
EXTENDS Integers, Sequences, FiniteSets, TLC

(***************************************************************************)
(* Bounds of the model and program constants.                              *)
(***************************************************************************)
\* Pages 1..MaxVaried are served any body of Site; later pages a body of LatePages.
MaxVaried == 2

\* range(2, 51): the last page number requested.
LastPage == 50

\* validate_data: 900 <= total_books <= 1100.
ExpectedMin == 900
ExpectedMax == 1100

(***************************************************************************)
(* Python text helpers.                                                    *)
(***************************************************************************)
Whitespace == {" ", "\n", "\t"}

CurrencySymbols == {"£", "$", "€"}

Digits == <<"0", "1", "2", "3", "4", "5", "6", "7", "8", "9">>

IsDigit(c) == \E d \in 1..10 : Digits[d] = c

DigitVal(c) == (CHOOSE d \in 1..10 : Digits[d] = c) - 1

\* F(x), with x evaluated once before F is applied to it.
Apply(F(_), x) == CHOOSE y \in {F(v) : v \in {x}} : TRUE

\* The index of the first character of s at or after i that is not whitespace.
RECURSIVE FirstKept(_, _)
FirstKept(s, i) ==
    IF i > Len(s) \/ s[i] \notin Whitespace THEN i ELSE FirstKept(s, i + 1)

\* The index of the last character of s at or before i that is not whitespace.
RECURSIVE LastKept(_, _)
LastKept(s, i) ==
    IF i < 1 \/ s[i] \notin Whitespace THEN i ELSE LastKept(s, i - 1)

\* str.strip()
Strip(s) == SubSeq(s, FirstKept(s, 1), LastKept(s, Len(s)))

\* needle in haystack, for Python str operands
Contains(haystack, needle) ==
    \E i \in 1..(Len(haystack) - Len(needle) + 1) :
        SubSeq(haystack, i, i + Len(needle) - 1) = needle

\* The value of the first n characters of s, a run of decimal digits.
RECURSIVE DigitsValueUpTo(_, _)
DigitsValueUpTo(s, n) ==
    IF n = 0 THEN 0 ELSE 10 * DigitsValueUpTo(s, n - 1) + DigitVal(s[n])

DigitsValue(s) == DigitsValueUpTo(s, Len(s))

AllDigits(s) == \A i \in 1..Len(s) : IsDigit(s[i])

\* The fractional digits of a literal, in hundredths (digits past the second are cut).
FracHundredths(s) ==
    IF Len(s) = 0 THEN 0
    ELSE IF Len(s) = 1 THEN 10 * DigitVal(s[1])
    ELSE 10 * DigitVal(s[1]) + DigitVal(s[2])

\* An unsigned decimal literal: digits, with at most one "." and at least one digit.
UnsignedOk(s) ==
    \/ s # <<>> /\ AllDigits(s)
    \/ \E p \in 1..Len(s) :
          /\ s[p] = "."
          /\ AllDigits(SubSeq(s, 1, p - 1))
          /\ AllDigits(SubSeq(s, p + 1, Len(s)))
          /\ Len(s) > 1

UnsignedValue(s) ==
    IF AllDigits(s) THEN 100 * DigitsValue(s)
    ELSE LET p == CHOOSE q \in 1..Len(s) : s[q] = "."
         IN  100 * DigitsValue(SubSeq(s, 1, p - 1))
               + FracHundredths(SubSeq(s, p + 1, Len(s)))

\* An unsigned decimal literal as a float; anything else raises ValueError.
UnsignedLiteral(s) ==
    IF UnsignedOk(s) THEN [raised |-> FALSE, val |-> UnsignedValue(s)]
    ELSE [raised |-> TRUE, val |-> 0]

\* -f
Negated(f) == [raised |-> f.raised, val |-> 0 - f.val]

\* A float literal without surrounding whitespace: an optional sign, then an
\* unsigned literal.
FloatLiteral(s) ==
    IF s # <<>> /\ Head(s) = "-" THEN Apply(Negated, Apply(UnsignedLiteral, Tail(s)))
    ELSE IF s # <<>> /\ Head(s) = "+" THEN Apply(UnsignedLiteral, Tail(s))
    ELSE UnsignedLiteral(s)

\* float(text): surrounding whitespace is ignored.
PyFloat(text) == Apply(FloatLiteral, Strip(text))

(***************************************************************************)
(* Field extractors.                                                       *)
(***************************************************************************)
\* rating_map, in insertion order
RatingMap ==
    << [word |-> <<"O", "n", "e">>, number |-> 1],
       [word |-> <<"T", "w", "o">>, number |-> 2],
       [word |-> <<"T", "h", "r", "e", "e">>, number |-> 3],
       [word |-> <<"F", "o", "u", "r">>, number |-> 4],
       [word |-> <<"F", "i", "v", "e">>, number |-> 5] >>

\* convert_rating_to_number: the number of the first word of rating_map found in
\* rating_class, 0 when none is.
ConvertRatingToNumber(rating_class) ==
    LET hits == {i \in 1..Len(RatingMap) : Contains(rating_class, RatingMap[i].word)}
    IN  IF hits = {} THEN 0
        ELSE RatingMap[CHOOSE i \in hits : \A j \in hits : i <= j].number

\* re.sub(r'[£$€]', '', price_text.strip())
PriceClean(price_text) ==
    SelectSeq(Strip(price_text), LAMBDA c : c \notin CurrencySymbols)

\* return float(price_clean) / except ValueError: return 0.0
FloatOrZero(price_clean) ==
    Apply(LAMBDA f : IF f.raised THEN 0 ELSE f.val, PyFloat(price_clean))

\* clean_price: float(price_clean), 0.0 on ValueError.
CleanPrice(price_text) == Apply(FloatOrZero, PriceClean(price_text))

\* The list literal ['One', 'Two', 'Three', 'Four', 'Five'] of scrape_page.
RatingWords == {RatingMap[i].word : i \in 1..Len(RatingMap)}

\* The rating loop of scrape_page: the first class token that is one of the five
\* words decides, 0 when there is none.
RatingOf(rating_classes) ==
    LET hits == {i \in 1..Len(rating_classes) : rating_classes[i] \in RatingWords}
    IN  IF hits = {} THEN 0
        ELSE ConvertRatingToNumber(rating_classes[CHOOSE i \in hits : \A j \in hits : i <= j])

InStock == <<"I", "n", " ", "s", "t", "o", "c", "k">>

\* The availability branch of scrape_page.
AvailabilityOf(has_element, text) ==
    IF has_element
    THEN (IF Apply(LAMBDA t : Contains(t, InStock), Strip(text))
          THEN "In stock" ELSE "Out of stock")
    ELSE "Unknown"

\* self.base_url + '/catalogue/'
CatalogueBase == "https://books.toscrape.com/catalogue/"

\* urljoin(base, href) for a plain relative href; a missing href gives the base.
UrlJoin(base, has_href, href) == IF has_href THEN base \o href ELSE base

(***************************************************************************)
(* Item containers (article.product_pod) as the parser sees them.          *)
(*   h3, a           the h3 element and the link inside it exist           *)
(*   has_title       the link has a title attribute                        *)
(*   price_el, rating_el, avail_el   the p elements exist                  *)
(***************************************************************************)
StarRating == <<"s", "t", "a", "r", "-", "r", "a", "t", "i", "n", "g">>

Article(h3, a, has_title, title, text, has_href, href, price_el, price_text, rating_el, rating_classes, avail_el, avail_text) ==
    [h3 |-> h3, a |-> a, has_title |-> has_title, title |-> title, text |-> text,
     has_href |-> has_href, href |-> href,
     price_el |-> price_el, price_text |-> price_text,
     rating_el |-> rating_el, rating_classes |-> rating_classes,
     avail_el |-> avail_el, avail_text |-> avail_text]

\* A complete container: title attribute, href, "£51.77", three stars, in stock.
GoodA ==
    Article(TRUE, TRUE, TRUE, "A Light in the Attic", "A Light in the ...",
            TRUE, "a-light_1000/index.html",
            TRUE, <<"£", "5", "1", ".", "7", "7">>,
            TRUE, <<StarRating, RatingMap[3].word>>,
            TRUE, <<"\n", " ", "I", "n", " ", "s", "t", "o", "c", "k", "\n">>)

\* A complete container with another URL, "$ 9.5 ", five stars, not in stock.
GoodB ==
    Article(TRUE, TRUE, TRUE, "Sharp Objects", "Sharp ...",
            TRUE, "sharp-objects_997/index.html",
            TRUE, <<"$", " ", "9", ".", "5", " ">>,
            TRUE, <<StarRating, RatingMap[5].word>>,
            TRUE, <<"S", "o", "l", "d", " ", "o", "u", "t">>)

\* No price, rating or availability element, no title attribute.
NoPrice ==
    Article(TRUE, TRUE, FALSE, "", "Soumission",
            TRUE, "soumission_998/index.html",
            FALSE, <<>>, FALSE, <<>>, FALSE, <<>>)

\* An h3 with no link in it: title_element is None.
NoLink ==
    Article(TRUE, FALSE, FALSE, "", "", FALSE, "",
            TRUE, <<"£", "1">>, TRUE, <<StarRating, RatingMap[1].word>>,
            TRUE, InStock)

\* No h3 at all: article.find('h3') is None.
NoH3 ==
    Article(FALSE, FALSE, FALSE, "", "", FALSE, "",
            TRUE, <<"£", "2">>, FALSE, <<>>, FALSE, <<>>)

\* A price text whose numeric remainder is negative; two recognized rating labels.
NegPrice ==
    Article(TRUE, TRUE, TRUE, "Refund", "Refund",
            TRUE, "refund_1/index.html",
            TRUE, <<"£", "-", "5", ".", "0", "0">>,
            TRUE, <<StarRating, RatingMap[4].word, RatingMap[2].word>>,
            TRUE, InStock)

\* A price text whose remainder is not a number; no recognized rating label; no href.
BadPrice ==
    Article(TRUE, TRUE, TRUE, "Free", "Free",
            FALSE, "",
            TRUE, <<"€", "f", "r", "e", "e">>,
            TRUE, <<StarRating, <<"Z", "e", "r", "o">>>>,
            TRUE, <<>>)

\* One extraction (the body of the inner try of scrape_page): the record that is
\* appended, or raised when title_element cannot be reached.
ExtractBook(article) ==
    IF ~article.h3 \/ ~article.a
    THEN [raised |-> TRUE, book |-> <<>>]
    ELSE [raised |-> FALSE,
          book |->
            [title |-> IF article.has_title THEN article.title ELSE article.text,
             price |-> IF article.price_el THEN CleanPrice(article.price_text) ELSE 0,
             rating |-> IF article.rating_el THEN RatingOf(article.rating_classes) ELSE 0,
             availability |-> AvailabilityOf(article.avail_el, article.avail_text),
             url |-> UrlJoin(CatalogueBase, article.has_href, article.href)]]

(***************************************************************************)
(* What the site can answer to one GET: a failure (network error or        *)
(* non-success status), or a body with its item containers in order.       *)
(***************************************************************************)
Failure == [ok |-> FALSE, articles |-> <<>>]

Body(containers) == [ok |-> TRUE, articles |-> containers]

Site ==
    << Failure,
       Body(<<>>),
       Body(<<GoodA>>),
       Body(<<GoodB, GoodA, GoodA>>),
       Body(<<NoH3, NoLink>>),
       Body(<<GoodB, NoLink, NoPrice>>),
       Body(<<NegPrice, BadPrice>>) >>

\* Indices into Site of the bodies served for pages above MaxVaried.
LatePages == {1, 2, 3}

PagesFor(n) == IF n <= MaxVaried THEN 1..Len(Site) ELSE LatePages

(***************************************************************************)
(* State.                                                                  *)
(***************************************************************************)
VARIABLES
    pc,             \* where main is
    page_num,       \* the page being scraped (1 for first_page_url)
    articles,       \* book_articles of the running scrape_page
    art_idx,        \* position of its for loop, 1-based
    books_on_page,  \* the value scrape_page returned last
    books_data,     \* self.books_data
    served,         \* every session.get made so far: page number and the answer
    stdout,         \* the lines printed so far
    report,         \* what validate_data computed, once it has run
    csv_file,       \* books.csv
    sigint          \* where main was when KeyboardInterrupt arrived, "none" before

vars ==
    <<pc, page_num, articles, art_idx, books_on_page, books_data, served, stdout,
      report, csv_file, sigint>>

Line(msg, arg) == [msg |-> msg, arg |-> arg]

Say(msg, arg) == stdout' = Append(stdout, Line(msg, arg))

NoReport == [ran |-> FALSE]

NoFile == [exists |-> FALSE, delimiter |-> "", rows |-> <<>>]

Init ==
    /\ pc = "start"
    /\ page_num = 1
    /\ articles = <<>>
    /\ art_idx = 1
    /\ books_on_page = 0
    /\ books_data = <<>>
    /\ served = <<>>
    /\ stdout = <<>>
    /\ report = NoReport
    /\ csv_file = NoFile
    /\ sigint = "none"

(***************************************************************************)
(* scrape_page                                                             *)
(***************************************************************************)

\* ReturnedCount counting the records extracted instead of the containers found.
ReturnedCount_Extracted(book_articles) ==
    Len(SelectSeq(book_articles, LAMBDA a : ~ExtractBook(a).raised))

\* return len(book_articles)
ReturnedCount(book_articles) == Len(book_articles)

\* the outer except: return 0
FailureCount == 0


\* AppendBook inserting at the front.
AppendBook_Prepend(data, book) == <<book>> \o data

\* self.books_data.append(book_data)
AppendBook(data, book) == Append(data, book)


\* GetFails without the outer except: the exception reaches main's except Exception.
GetFails_Propagates ==
    /\ pc = "get"
    /\ \E b \in PagesFor(page_num) :
          /\ ~Site[b].ok
          /\ served' = Append(served, [page |-> page_num, body |-> b])
    /\ stdout' = stdout \o <<Line("Scraping page", page_num),
                             Line("Execution error", 0)>>
    /\ pc' = "error"
    /\ UNCHANGED <<page_num, articles, art_idx, books_on_page, books_data, report,
                   csv_file, sigint>>

\* session.get / raise_for_status raise: the outer except prints and returns 0.
GetFails ==
    /\ pc = "get"
    /\ \E b \in PagesFor(page_num) :
          /\ ~Site[b].ok
          /\ served' = Append(served, [page |-> page_num, body |-> b])
    /\ stdout' = stdout \o <<Line("Scraping page", page_num),
                             Line("Error loading page", page_num)>>
    /\ books_on_page' = FailureCount
    /\ pc' = "returned"
    /\ UNCHANGED <<page_num, articles, art_idx, books_data, report, csv_file, sigint>>

\* session.get succeeds: soup.find_all gives the containers, the for loop starts.
GetSucceeds ==
    /\ pc = "get"
    /\ \E b \in PagesFor(page_num) :
          /\ Site[b].ok
          /\ served' = Append(served, [page |-> page_num, body |-> b])
          /\ articles' = Site[b].articles
    /\ Say("Scraping page", page_num)
    /\ art_idx' = 1
    /\ pc' = "parse"
    /\ UNCHANGED <<page_num, books_on_page, books_data, report, csv_file, sigint>>


\* ParseArticle with break in place of continue: a raising container ends the loop.
ParseArticle_Aborts ==
    /\ pc = "parse"
    /\ art_idx <= Len(articles)
    /\ LET r == ExtractBook(articles[art_idx])
       IN  IF r.raised
           THEN /\ Say("Error parsing book", art_idx)
                /\ art_idx' = Len(articles) + 1
                /\ UNCHANGED books_data
           ELSE /\ books_data' = AppendBook(books_data, r.book)
                /\ art_idx' = art_idx + 1
                /\ UNCHANGED stdout
    /\ UNCHANGED <<pc, page_num, articles, books_on_page, served, report, csv_file, sigint>>

\* One iteration of "for article in book_articles": append the record, or print
\* and continue when the extraction raised.
ParseArticle ==
    /\ pc = "parse"
    /\ art_idx <= Len(articles)
    /\ LET r == ExtractBook(articles[art_idx])
       IN  IF r.raised
           THEN /\ Say("Error parsing book", art_idx)
                /\ UNCHANGED books_data
           ELSE /\ books_data' = AppendBook(books_data, r.book)
                /\ UNCHANGED stdout
    /\ art_idx' = art_idx + 1
    /\ UNCHANGED <<pc, page_num, articles, books_on_page, served, report, csv_file, sigint>>

\* The for loop is over: return len(book_articles).
ScrapePageReturn ==
    /\ pc = "parse"
    /\ art_idx > Len(articles)
    /\ books_on_page' = ReturnedCount(articles)
    /\ pc' = "returned"
    /\ UNCHANGED <<page_num, articles, art_idx, books_data, served, stdout, report,
                   csv_file, sigint>>

(***************************************************************************)
(* scrape_all_pages                                                        *)
(***************************************************************************)
ScrapeAllPagesStart ==
    /\ pc = "start"
    /\ Say("Starting to scrape all pages...", 0)
    /\ page_num' = 1
    /\ pc' = "get"
    /\ UNCHANGED <<articles, art_idx, books_on_page, books_data, served, report,
                   csv_file, sigint>>

\* if books_count == 0: print(...); return
FirstPageEmpty ==
    /\ pc = "returned"
    /\ page_num = 1
    /\ books_on_page = 0
    /\ Say("No books found on first page", 0)
    /\ pc' = "validate"
    /\ UNCHANGED <<page_num, articles, art_idx, books_on_page, books_data, served,
                   report, csv_file, sigint>>

\* The first page had books: the for loop starts at page 2.
FirstPageHasBooks ==
    /\ pc = "returned"
    /\ page_num = 1
    /\ books_on_page # 0
    /\ page_num' = 2
    /\ pc' = "get"
    /\ UNCHANGED <<articles, art_idx, books_on_page, books_data, served, stdout,
                   report, csv_file, sigint>>



\* LoopPageEmpty returning in place of break: the total-count line is skipped.
LoopPageEmpty_Returns ==
    /\ pc = "returned"
    /\ page_num >= 2
    /\ books_on_page = 0
    /\ Say("Page is empty, possibly reached catalog end", page_num)
    /\ pc' = "validate"
    /\ UNCHANGED <<page_num, articles, art_idx, books_on_page, books_data, served,
                   report, csv_file, sigint>>

\* LoopPageEmpty without the break: the loop goes on after an empty page.
LoopPageEmpty_NoBreak ==
    /\ pc = "returned"
    /\ page_num >= 2
    /\ books_on_page = 0
    /\ Say("Page is empty, possibly reached catalog end", page_num)
    /\ pc' = "sleep"
    /\ UNCHANGED <<page_num, articles, art_idx, books_on_page, books_data, served,
                   report, csv_file, sigint>>

\* if books_on_page == 0: print(...); break
LoopPageEmpty ==
    /\ pc = "returned"
    /\ page_num >= 2
    /\ books_on_page = 0
    /\ Say("Page is empty, possibly reached catalog end", page_num)
    /\ pc' = "loop_exit"
    /\ UNCHANGED <<page_num, articles, art_idx, books_on_page, books_data, served,
                   report, csv_file, sigint>>

\* The page had books: go on to time.sleep(0.5).
LoopPageHasBooks ==
    /\ pc = "returned"
    /\ page_num >= 2
    /\ books_on_page # 0
    /\ pc' = "sleep"
    /\ UNCHANGED <<page_num, articles, art_idx, books_on_page, books_data, served,
                   stdout, report, csv_file, sigint>>


\* Sleep without the step of range(): the same page is fetched again.
Sleep_Refetch ==
    /\ pc = "sleep"
    /\ pc' = "get"
    /\ UNCHANGED <<page_num, articles, art_idx, books_on_page, books_data, served,
                   stdout, report, csv_file, sigint>>

\* time.sleep(0.5) returns; range(2, 51) gives the next page number or is exhausted.
Sleep ==
    /\ pc = "sleep"
    /\ IF page_num < LastPage
       THEN /\ page_num' = page_num + 1
            /\ pc' = "get"
       ELSE /\ pc' = "loop_exit"
            /\ UNCHANGED page_num
    /\ UNCHANGED <<articles, art_idx, books_on_page, books_data, served, stdout,
                   report, csv_file, sigint>>

\* print(f"Total books scraped: {len(self.books_data)}")
LogTotal ==
    /\ pc = "loop_exit"
    /\ Say("Total books scraped", Len(books_data))
    /\ pc' = "validate"
    /\ UNCHANGED <<page_num, articles, art_idx, books_on_page, books_data, served,
                   report, csv_file, sigint>>

(***************************************************************************)
(* validate_data                                                           *)
(***************************************************************************)
\* The sum of the first n elements of s.
RECURSIVE SumUpTo(_, _)
SumUpTo(s, n) == IF n = 0 THEN 0 ELSE SumUpTo(s, n - 1) + s[n]

\* sum(s)
SumSeq(s) == SumUpTo(s, Len(s))

\* a / b: ZeroDivisionError when b is 0; the quotient is kept as a fraction.
PyDiv(a, b) ==
    IF b = 0 THEN [raised |-> TRUE, shown |-> FALSE, num |-> 0, den |-> 0]
    ELSE [raised |-> FALSE, shown |-> TRUE, num |-> a, den |-> b]

\* prices = [book['price'] for book in self.books_data if book['price'] > 0]
PositivePrices(data) ==
    Apply(LAMBDA kept : [i \in 1..Len(kept) |-> kept[i].price],
          SelectSeq(data, LAMBDA book : book.price > 0))


\* AveragePrice without the "if prices" guard.
AveragePrice_Unguarded(prices) == PyDiv(SumSeq(prices), Len(prices))

\* if prices: avg_price = sum(prices) / len(prices)
AveragePrice(prices) ==
    IF prices # <<>> THEN PyDiv(SumSeq(prices), Len(prices))
    ELSE [raised |-> FALSE, shown |-> FALSE, num |-> 0, den |-> 0]

\* ratings.count(n)
CountRating(data, n) == Cardinality({i \in 1..Len(data) : data[i].rating = n})

\* Everything validate_data computes and prints.
ValidationOf(data) ==
    LET total_books == Len(data)
        unique_urls == {data[i].url : i \in 1..Len(data)}
    IN  [ran |-> TRUE,
         total_books |-> total_books,
         unique_urls |-> Cardinality(unique_urls),
         duplicates |-> total_books - Cardinality(unique_urls),
         avg_price |-> Apply(AveragePrice, PositivePrices(data)),
         count_ok |-> (ExpectedMin <= total_books /\ total_books <= ExpectedMax),
         ratings |-> [n \in 1..5 |-> CountRating(data, n)]]

\* main: scraper.validate_data(); an exception in it goes to main's except Exception.
ValidateData ==
    /\ pc = "validate"
    /\ LET v == ValidationOf(books_data)
       IN  IF v.avg_price.raised
           THEN /\ pc' = "error"
                /\ stdout' = stdout \o <<Line("=== DATA VALIDATION ===", 0),
                                         Line("Execution error", 0)>>
                /\ UNCHANGED report
           ELSE /\ pc' = "save"
                /\ Say("=== DATA VALIDATION ===", 0)
                /\ report' = v
    /\ UNCHANGED <<page_num, articles, art_idx, books_on_page, books_data, served,
                   csv_file, sigint>>

(***************************************************************************)
(* save_to_csv                                                             *)
(***************************************************************************)
\* fieldnames
Fieldnames == <<"title", "price", "rating", "availability", "url">>

\* writer.writerow(book): the record's values in fieldnames order.
RowOf(book) == <<book.title, book.price, book.rating, book.availability, book.url>>

\* The file save_to_csv leaves: unchanged when there is no data, else the header
\* row and one row per record.
WrittenFile(old, data) ==
    IF data = <<>> THEN old
    ELSE [exists |-> TRUE, delimiter |-> ";",
          rows |-> <<Fieldnames>> \o [i \in 1..Len(data) |-> RowOf(data[i])]]

\* main: scraper.save_to_csv('books.csv'), then the success line.
SaveToCsv ==
    /\ pc = "save"
    /\ csv_file' = WrittenFile(csv_file, books_data)
    /\ stdout' = stdout \o
          <<IF books_data = <<>> THEN Line("No data to save", 0)
            ELSE Line("Data saved to", Len(books_data)),
            Line("Scraping completed successfully!", 0)>>
    /\ pc' = "completed"
    /\ UNCHANGED <<page_num, articles, art_idx, books_on_page, books_data, served,
                   report, sigint>>

(***************************************************************************)
(* main's except KeyboardInterrupt                                         *)
(***************************************************************************)
\* The positions inside scrape_all_pages, and all positions inside main's try.
CrawlPcs == {"get", "parse", "returned", "sleep", "loop_exit"}

RunningPcs == {"start"} \cup CrawlPcs \cup {"validate", "save"}


\* Interrupt caught by the outer except of scrape_page, as an Exception would be.
Interrupt_Swallowed ==
    /\ pc \in RunningPcs
    /\ sigint' = pc
    /\ IF pc \in {"get", "parse"}
       THEN /\ pc' = "returned"
            /\ books_on_page' = 0
            /\ Say("Error loading page", page_num)
       ELSE /\ pc' = "interrupted"
            /\ Say("Scraping interrupted by user", 0)
            /\ UNCHANGED books_on_page
    /\ UNCHANGED <<page_num, articles, art_idx, books_data, served, report, csv_file>>

\* KeyboardInterrupt is no Exception: neither except of scrape_page catches it,
\* main's except KeyboardInterrupt does.
Interrupt ==
    /\ pc \in RunningPcs
    /\ sigint' = pc
    /\ pc' = "interrupted"
    /\ Say("Scraping interrupted by user", 0)
    /\ UNCHANGED <<page_num, articles, art_idx, books_on_page, books_data, served,
                   report, csv_file>>

\* The steps the program takes by itself.
Step ==
    \/ ScrapeAllPagesStart
    \/ GetFails
    \/ GetSucceeds
    \/ ParseArticle
    \/ ScrapePageReturn
    \/ FirstPageEmpty
    \/ FirstPageHasBooks
    \/ LoopPageEmpty
    \/ LoopPageHasBooks
    \/ Sleep
    \/ LogTotal
    \/ ValidateData
    \/ SaveToCsv

Next == Step \/ Interrupt

Spec == Init /\ [][Next]_vars

\* The interpreter keeps running the program; an interrupt may or may not come.
FairSpec == Spec /\ WF_vars(Step)

(***************************************************************************)
(* Vocabulary of the properties.                                           *)
(***************************************************************************)
\* scrape_all_pages has returned.
AfterCrawl ==
    \/ pc \in {"validate", "save", "completed", "error"}
    \/ sigint \in {"validate", "save"}

\* The answer yields zero items: a failure, or a body with no container.
ZeroItems(b) == ~Site[b].ok \/ Site[b].articles = <<>>

\* The containers whose title link can be reached.
Extractable(a) == a.h3 /\ a.a

\* A container with every element and attribute the parser looks for.
WellFormed(a) ==
    /\ Extractable(a) /\ a.has_title /\ a.has_href
    /\ a.price_el /\ a.rating_el /\ a.avail_el

\* The records a sequence of containers gives, in order.
RECURSIVE RecordsOfArticles(_)
RecordsOfArticles(as) ==
    IF as = <<>> THEN <<>>
    ELSE (IF Extractable(Head(as)) THEN <<ExtractBook(Head(as)).book>> ELSE <<>>)
            \o RecordsOfArticles(Tail(as))

\* The records each body of Site gives.
RECURSIVE SiteRecordsUpTo(_)
SiteRecordsUpTo(n) ==
    IF n = 0 THEN <<>>
    ELSE Append(SiteRecordsUpTo(n - 1), RecordsOfArticles(Site[n].articles))

SiteRecords == SiteRecordsUpTo(Len(Site))

\* The records of the first n answers, in page order then in-page order, given the
\* records of each body of Site.
RECURSIVE ConcatRecords(_, _, _)
ConcatRecords(recs, srv, n) ==
    IF n = 0 THEN <<>> ELSE ConcatRecords(recs, srv, n - 1) \o recs[srv[n].body]

RecordsUpTo(srv, n) == ConcatRecords(SiteRecords, srv, n)

\* How many records the first n answers give.
RECURSIVE CountRecords(_, _, _)
CountRecords(recs, srv, n) ==
    IF n = 0 THEN 0 ELSE CountRecords(recs, srv, n - 1) + Len(recs[srv[n].body])

CountUpTo(srv, n) == CountRecords(SiteRecords, srv, n)

\* The containers of the first n answers, in page order then in-page order.
RECURSIVE ArticlesUpTo(_, _)
ArticlesUpTo(srv, n) ==
    IF n = 0 THEN <<>> ELSE ArticlesUpTo(srv, n - 1) \o Site[srv[n].body].articles

\* How many times a line was printed, and where.
LinesOf(msg) == {i \in 1..Len(stdout) : stdout[i].msg = msg}

TotalLine == "Total books scraped"

(***************************************************************************)
(* Crawl termination (C1).                                                 *)
(***************************************************************************)
\* C1: if the answer for page k yields zero items then no page after k is ever
\* fetched, and once scrape_all_pages has returned the Collection holds exactly
\* the records of pages 1..k-1.
C1_CrawlTermination ==
    \A k \in 1..Len(served) :
        ZeroItems(served[k].body) =>
            /\ served[k].page = k
            /\ k = Len(served)
            /\ pc \notin {"get", "sleep"}
            /\ pc = "parse" => articles = <<>>
            /\ AfterCrawl => books_data = RecordsUpTo(served, k - 1)

\* Page 3 yielded zero items after two pages with records, and the crawl is over.
C1_Witness ==
    /\ pc = "completed"
    /\ Len(served) = 3
    /\ ZeroItems(served[3].body)
    /\ Len(books_data) >= 2

(***************************************************************************)
(* End to end (C2).                                                        *)
(***************************************************************************)
\* Pages 1..k-1 answered with well-formed containers only, page k with a body of
\* zero containers.
WellFormedRun ==
    /\ served # <<>>
    /\ Site[served[Len(served)].body].ok
    /\ Site[served[Len(served)].body].articles = <<>>
    /\ \A k \in 1..(Len(served) - 1) :
          /\ Site[served[k].body].ok
          /\ Site[served[k].body].articles # <<>>
          /\ \A i \in 1..Len(Site[served[k].body].articles) :
                WellFormed(Site[served[k].body].articles[i])

\* C2: after main has run over such pages the Collection has one record per
\* container, in page order then in-page order, each with the container's title
\* and URL; books.csv holds the header row and then one row per record in that
\* order; with an empty Collection no file is written.
C2_EndToEnd ==
    (pc = "completed" /\ WellFormedRun) =>
        LET arts == ArticlesUpTo(served, Len(served) - 1)
        IN  /\ Len(books_data) = Len(arts)
            /\ \A i \in 1..Len(arts) :
                  /\ books_data[i].title = arts[i].title
                  /\ books_data[i].url = CatalogueBase \o arts[i].href
                  /\ books_data[i] = ExtractBook(arts[i]).book
            /\ csv_file.exists = (books_data # <<>>)
            /\ csv_file.exists =>
                  /\ Len(csv_file.rows) = Len(books_data) + 1
                  /\ csv_file.rows[1] = <<"title", "price", "rating", "availability", "url">>
                  /\ \A i \in 1..Len(books_data) :
                        csv_file.rows[i + 1] =
                            <<books_data[i].title, books_data[i].price,
                              books_data[i].rating, books_data[i].availability,
                              books_data[i].url>>
            /\ ~csv_file.exists => csv_file = NoFile

\* Three well-formed containers, then an empty page: three records, four lines.
C2_Witness ==
    /\ pc = "completed"
    /\ WellFormedRun
    /\ Len(served) = 2
    /\ Len(Site[served[1].body].articles) = 3
    /\ Len(books_data) = 3
    /\ Len(csv_file.rows) = 4

(***************************************************************************)
(* Fetch failures (C3).                                                    *)
(***************************************************************************)
\* C3: a fetch failure on page k never reaches the caller as an error: the page
\* counts zero items, adds no record, is not fetched again, and the crawl goes
\* to its end as for an empty page, keeping the records of pages 1..k-1.
C3_FetchFailure ==
    /\ pc # "error"
    /\ \A k \in 1..Len(served) :
          ~Site[served[k].body].ok =>
              /\ k = Len(served)
              /\ \A j \in 1..Len(served) : served[j].page = served[k].page => j = k
              /\ books_on_page = 0
              /\ books_data = RecordsUpTo(served, k - 1)
              /\ \/ pc \in {"returned", "loop_exit", "validate", "save", "completed"}
                 \/ pc = "interrupted" /\ sigint \in {"returned", "loop_exit", "validate", "save"}
              /\ pc = "completed" => Cardinality(LinesOf("Error loading page")) = 1

\* Page 3 failed after two pages with records, and main ran to its end.
C3_Witness ==
    /\ pc = "completed"
    /\ Len(served) = 3
    /\ ~Site[served[3].body].ok
    /\ books_data # <<>>
    /\ csv_file.exists

(***************************************************************************)
(* Defective containers (C4).                                              *)
(***************************************************************************)
\* The records the running scrape_page has appended so far.
PageRecords ==
    SubSeq(books_data, CountUpTo(served, Len(served) - 1) + 1, Len(books_data))

\* C4: while a page is parsed, and when its parsing is over, the page's records
\* are those of the containers seen so far whose title link exists, in in-page
\* order: a container without a price element gives a record with price 0, a
\* container whose extraction raises gives none, and the loop always reaches
\* the last container.
C4_DefectiveContainers ==
    (served # <<>> /\ Site[served[Len(served)].body].ok /\ pc \in {"parse", "returned"}) =>
        LET seen == SelectSeq(SubSeq(articles, 1, art_idx - 1), Extractable)
            recs == PageRecords
        IN  /\ articles = Site[served[Len(served)].body].articles
            /\ pc = "returned" => art_idx = Len(articles) + 1
            /\ SubSeq(books_data, 1, Len(books_data) - Len(recs))
                  = RecordsUpTo(served, Len(served) - 1)
            /\ Len(recs) = Len(seen)
            /\ \A i \in 1..Len(seen) :
                  /\ recs[i].url = UrlJoin(CatalogueBase, seen[i].has_href, seen[i].href)
                  /\ ~seen[i].price_el => recs[i].price = 0
                  /\ recs[i].title =
                        (IF seen[i].has_title THEN seen[i].title ELSE seen[i].text)

\* A page whose second container raises and whose third has no price element
\* was parsed to its end: two records, the last with price 0.
C4_Witness ==
    /\ pc = "returned"
    /\ served # <<>>
    /\ Site[served[Len(served)].body].ok
    /\ \E i \in 1..Len(articles) : ~Extractable(articles[i])
    /\ \E i \in 1..Len(articles) : Extractable(articles[i]) /\ ~articles[i].price_el
    /\ Len(PageRecords) = 2
    /\ PageRecords[2].price = 0

(***************************************************************************)
(* Bounded iteration (C5), under FairSpec.                                 *)
(***************************************************************************)
\* The pages fetched so far are 1, 2, ..., m in this order, once each, m <= 50.
C5_PagesInOrder ==
    /\ Len(served) <= LastPage
    /\ \A i \in 1..Len(served) : served[i].page = i

\* C5: whatever the site answers, the pages fetched are always 1..m in
\* increasing order without gap or repetition and never above 50; after the
\* sleep that follows page 50 the loop is left; and scrape_all_pages returns
\* (unless an interrupt ends the run first).
C5_BoundedCrawl ==
    /\ []C5_PagesInOrder
    /\ [][(pc = "sleep" /\ page_num = LastPage) => pc' \in {"loop_exit", "interrupted"}]_vars
    /\ <>(AfterCrawl \/ pc = "interrupted")

\* All 50 pages were fetched, the last one had books, and main ran to its end.
C5_Witness ==
    /\ pc = "completed"
    /\ Len(served) = LastPage
    /\ ~ZeroItems(served[LastPage].body)
    /\ Len(books_data) >= LastPage

(***************************************************************************)
(* Item Record invariant (C6).                                             *)
(***************************************************************************)
\* C6: every record of the Collection has a non-negative price, a rating in
\* 0..5 and an availability among "In stock", "Out of stock", "Unknown".
C6_ItemRecordInvariant ==
    \A i \in 1..Len(books_data) :
        /\ books_data[i].price >= 0
        /\ books_data[i].rating \in 0..5
        /\ books_data[i].availability \in {"In stock", "Out of stock", "Unknown"}

(***************************************************************************)
(* Continuation signal (C7).                                               *)
(***************************************************************************)
\* The answer has containers and none of them gives a record.
NoRecordPage(b) ==
    /\ Site[b].ok
    /\ Site[b].articles # <<>>
    /\ \A i \in 1..Len(Site[b].articles) : ~Extractable(Site[b].articles[i])

\* C7: a page with containers that all fail extraction appends nothing and
\* returns the number of its containers, so the loop goes on; the crawl is over
\* before page 50 only after an answer with zero containers or a failure.
C7_ContinuationSignal ==
    /\ (served # <<>> /\ NoRecordPage(served[Len(served)].body)) =>
          /\ books_data = RecordsUpTo(served, Len(served) - 1)
          /\ pc = "returned" =>
                (books_on_page = Len(articles) /\ books_on_page > 0)
          /\ Len(served) < LastPage =>
                (pc \notin {"loop_exit", "validate", "save", "completed"}
                    /\ sigint \notin {"loop_exit", "validate", "save"})
    /\ ((pc = "loop_exit" \/ AfterCrawl) /\ Len(served) < LastPage) =>
          (served # <<>> /\ ZeroItems(served[Len(served)].body))

\* Page 2 had containers that all failed, and page 3 was fetched all the same.
C7_Witness ==
    /\ Len(served) = 3
    /\ NoRecordPage(served[2].body)
    /\ Len(books_data) = Len(SiteRecords[served[1].body])
    /\ pc = "parse"

(***************************************************************************)
(* Interrupt (C8).                                                         *)
(***************************************************************************)
\* C8: once an interrupt has arrived while scrape_all_pages was running, main
\* is in its except KeyboardInterrupt branch with the interrupted message as
\* the last line: validate_data has not run, books.csv has not been written.
C8_InterruptDuringCrawl ==
    sigint \in CrawlPcs =>
        /\ pc = "interrupted"
        /\ stdout[Len(stdout)].msg = "Scraping interrupted by user"
        /\ report = NoReport
        /\ csv_file = NoFile
        /\ LinesOf("=== DATA VALIDATION ===") = {}
        /\ LinesOf("Scraping completed successfully!") = {}

\* The interrupt arrived in the middle of parsing a page, with records collected.
C8_Witness ==
    /\ sigint = "parse"
    /\ pc = "interrupted"
    /\ art_idx > 1
    /\ art_idx <= Len(articles)
    /\ books_data # <<>>

(***************************************************************************)
(* Validator (C9).                                                         *)
(***************************************************************************)
\* C9: validate_data never raises; after it the Collection is still the crawl's
\* result, the report counts it, the average is shown exactly when some price
\* is above 0, and save_to_csv then runs on that Collection.
C9_ValidatorAdvisory ==
    /\ pc # "error"
    /\ LinesOf("Execution error") = {}
    /\ (pc \in {"save", "completed"} \/ sigint = "save") =>
          /\ report.ran
          /\ books_data = RecordsUpTo(served, Len(served))
          /\ report.total_books = Len(books_data)
          /\ report.duplicates = report.total_books - report.unique_urls
          /\ report.avg_price.shown = (\E i \in 1..Len(books_data) : books_data[i].price > 0)
    /\ pc = "completed" =>
          /\ csv_file.exists = (books_data # <<>>)
          /\ csv_file.exists => Len(csv_file.rows) = Len(books_data) + 1

\* main ran to its end on a Collection with a duplicate URL, outside [900, 1100]
\* and with no price above 0.
C9_Witness ==
    /\ pc = "completed"
    /\ books_data # <<>>
    /\ \A i \in 1..Len(books_data) : books_data[i].price <= 0
    /\ ~report.avg_price.shown
    /\ ~report.count_ok
    /\ report.duplicates > 0
    /\ csv_file.exists

(***************************************************************************)
(* Final count log (C10).                                                  *)
(***************************************************************************)
\* C10, as stated: on every path to Done the total-count line is printed
\* exactly once.
C10_TotalLogOnEveryPath ==
    AfterCrawl => Cardinality(LinesOf(TotalLine)) = 1

\* scrape_all_pages is still running, or was when the interrupt arrived.
BeforeDone ==
    \/ pc \in {"start"} \cup CrawlPcs
    \/ sigint \in {"start"} \cup CrawlPcs

\* C10, amended: when page 1 yielded at least one container, the total-count
\* line is printed exactly once on the way to Done, after the last fetch and
\* with the size of the Collection; when page 1 yielded zero items the line is
\* never printed and "No books found on first page" is, once.
C10_TotalLogAfterFirstPage ==
    /\ BeforeDone => LinesOf(TotalLine) = {}
    /\ (AfterCrawl /\ ~ZeroItems(served[1].body)) =>
          /\ Cardinality(LinesOf(TotalLine)) = 1
          /\ LinesOf("No books found on first page") = {}
          /\ \A t \in LinesOf(TotalLine) :
                /\ stdout[t].arg = Len(books_data)
                /\ \A g \in LinesOf("Scraping page") : g < t
    /\ (AfterCrawl /\ ZeroItems(served[1].body)) =>
          /\ LinesOf(TotalLine) = {}
          /\ Cardinality(LinesOf("No books found on first page")) = 1
          /\ Len(served) = 1

\* The crawl ended at an empty page 2 and the total-count line was printed.
C10_Witness ==
    /\ pc = "completed"
    /\ Len(served) = 2
    /\ ZeroItems(served[2].body)
    /\ Cardinality(LinesOf(TotalLine)) = 1

====
